---- MODULE Spec2Model ----
(***************************************************************************)
(* Model of scripts/pdf-to-text.py: the module-level import guard, main()  *)
(* and extract_pdf_text(), one action per statement group, over a small    *)
(* file system.  Strings are sequences of one-character strings so that    *)
(* strip(), splitext(), basename(), the f-strings and "\n".join are        *)
(* computed character by character.                                        *)
(***************************************************************************)
EXTENDS Integers, Sequences, FiniteSets, TLC

\* ---------------------------------------------------------------- bounds
MaxPages == 3
MaxRuns == 2

\* ------------------------------------------------------- string literals
HeadingPrefix == <<"#", " ">>
CountSuffix == <<" ", "p", "a", "g", "e", "s", "*">>
RuleLine == <<"-", "-", "-">>
PagePrefix == <<"#", "#", " ", "P", "a", "g", "e", " ">>
MdExt == <<".", "m", "d">>
ErrorPrefix == <<"E", "R", "R", "O", "R", ":", " ">>
NotFoundPrefix == <<"P", "D", "F", " ", "n", "o", "t", " ", "f", "o", "u", "n", "d", ":", " ">>
ImportErrorLine == <<"E", "R", "R", "O", "R", ":", " ", "P", "y", "M", "u", "P", "D", "F", " ", "n", "o", "t", " ", "i", "n", "s", "t", "a", "l", "l", "e", "d", ".", " ", "R", "u", "n", ":", " ", "p", "i", "p", " ", "i", "n", "s", "t", "a", "l", "l", " ", "p", "y", "m", "u", "p", "d", "f">>
UsageLine == <<"U", "s", "a", "g", "e", ":", " ", "p", "d", "f", "-", "t", "o", "-", "t", "e", "x", "t", ".", "p", "y", " ", "<", "i", "n", "p", "u", "t", ".", "p", "d", "f", ">", " ", "[", "o", "u", "t", "p", "u", "t", ".", "m", "d", "]">>
\* messages carried by the exceptions of the library and of open()/write()
OpenFailedMsg == <<"n", "o", "t", " ", "a", " ", "P", "D", "F">>
ExtractFailedMsg == <<"b", "a", "d", " ", "p", "a", "g", "e">>
NoSuchDirMsg == <<"n", "o", " ", "d", "i", "r", ":", " ">>
NoSpaceMsg == <<"n", "o", " ", "s", "p", "a", "c", "e">>

Whitespace == {" ", "\n", "\t"}
DigitChars == <<"0", "1", "2", "3", "4", "5", "6", "7", "8", "9">>

\* ------------------------------------------------------- pure functions
\* str(n) for n >= 0, as the f-strings format an int
RECURSIVE IntToStr(_)
IntToStr(n) ==
    IF n < 10 THEN <<DigitChars[n + 1]>>
    ELSE IntToStr(n \div 10) \o <<DigitChars[(n % 10) + 1]>>

\* str.strip(): drop leading and trailing whitespace
Strip(s) ==
    LET keep == {k \in 1..Len(s) : s[k] \notin Whitespace}
    IN IF keep = {} THEN <<>>
       ELSE LET lo == CHOOSE k \in keep : \A m \in keep : k <= m
                hi == CHOOSE k \in keep : \A m \in keep : k >= m
            IN SubSeq(s, lo, hi)

\* str.rfind(c), 1-based; 0 when c does not occur (Python's -1)
RFind(s, c) ==
    LET hits == {k \in 1..Len(s) : s[k] = c}
    IN IF hits = {} THEN 0 ELSE CHOOSE k \in hits : \A m \in hits : k >= m

\* os.path.splitext (genericpath._splitext): the extension starts at the last
\* dot of the last component, leading dots of that component not counting
SplitExt(p) ==
    LET sepIndex == RFind(p, "/")
        dotIndex == RFind(p, ".")
    IN IF /\ dotIndex > sepIndex
          /\ \E k \in (sepIndex + 1)..(dotIndex - 1) : p[k] # "."
       THEN <<SubSeq(p, 1, dotIndex - 1), SubSeq(p, dotIndex, Len(p))>>
       ELSE <<p, <<>>>>

\* os.path.basename
BaseName(p) == SubSeq(p, RFind(p, "/") + 1, Len(p))

\* os.path.dirname restricted to the paths of the model (no trailing slash)
DirName(p) == SubSeq(p, 1, RFind(p, "/") - 1)

\* the default computed by cutting at the last dot of the whole path
DefaultOutputPathLastDot(p) ==
    (IF RFind(p, ".") = 0 THEN p ELSE SubSeq(p, 1, RFind(p, ".") - 1)) \o MdExt

\* the default of line 30: os.path.splitext(pdf_path)[0] + ".md"
DefaultOutputPath(p) == SplitExt(p)[1] \o MdExt

\* "\n".join(lines)
RECURSIVE Join(_)
Join(ls) ==
    IF Len(ls) = 0 THEN <<>>
    ELSE IF Len(ls) = 1 THEN ls[1]
    ELSE ls[1] \o <<"\n">> \o Join(Tail(ls))

\* the header with the page count one too many
HeaderLinesOffByOne(path, n) ==
    << HeadingPrefix \o BaseName(path), <<>>, <<"*">> \o IntToStr(n + 1) \o CountSuffix, <<>> >>

\* the four lines appended at lines 35-38
HeaderLines(path, n) ==
    << HeadingPrefix \o BaseName(path), <<>>, <<"*">> \o IntToStr(n) \o CountSuffix, <<>> >>

\* the loop body testing the untrimmed text
PageLinesUntrimmedTest(idx, raw) ==
    IF raw # <<>>
    THEN << RuleLine, PagePrefix \o IntToStr(idx + 1), <<>>, Strip(raw), <<>> >>
    ELSE <<>>

\* the lines appended by one iteration of the loop (lines 41-47) for the
\* page at zero-based index idx with raw text raw
PageLines(idx, raw) ==
    LET text == Strip(raw)
    IN IF text # <<>>
       THEN << RuleLine, PagePrefix \o IntToStr(idx + 1), <<>>, text, <<>> >>
       ELSE <<>>

\* ------------------------------------------------------------ file system
NoFile == [kind |-> "none", pages |-> <<>>, bad |-> 0, text |-> <<>>]
TextFile(t) == [kind |-> "text", pages |-> <<>>, bad |-> 0, text |-> t]
\* a PDF: the raw text of each page; bad = k > 0 when extracting page k fails
PdfFile(pages, bad) == [kind |-> "pdf", pages |-> pages, bad |-> bad, text |-> <<>>]

None == <<"None">>

\* candidate values of sys.argv[1]
PdfPaths ==
    { <<"a", ".", "p", "d", "f">>, <<"a">>, <<"a", ".", "m", "d">>,
      <<".", "p", "d", "f">>, <<"d", ".", "x", "/", "a">> }
\* candidate values of sys.argv[2]
OutPaths ==
    { <<"o", ".", "m", "d">>, <<"n", "/", "o", ".", "m", "d">>,
      <<"a", ".", "p", "d", "f">> }
\* the other paths of the file system: where the defaults of the inputs land
OtherPaths ==
    { <<".", "p", "d", "f", ".", "m", "d">>, <<"d", ".", "x", "/", "a", ".", "m", "d">> }
AllPaths == PdfPaths \cup OutPaths \cup OtherPaths
\* the directories that exist: the working directory and d.x
Dirs == { <<>>, <<"d", ".", "x">> }

\* raw page texts as get_text() returns them
RawTexts == { <<>>, <<" ", "\n">>, <<" ", "a", "\n", "b", " ">>, <<"c">> }
RECURSIVE SeqsUpTo(_, _)
SeqsUpTo(S, n) ==
    IF n = 0 THEN {<<>>}
    ELSE LET shorter == SeqsUpTo(S, n - 1)
         IN shorter \cup {Append(q, x) : q \in {r \in shorter : Len(r) = n - 1}, x \in S}
PdfFiles == {PdfFile(ps, b) : ps \in SeqsUpTo(RawTexts, MaxPages), b \in 0..MaxPages}
JunkFile == TextFile(<<"j", "u", "n", "k">>)
OldFile == TextFile(<<"o", "l", "d">>)
\* what may sit at the input path: nothing, a non-PDF, or a PDF whose pages all
\* extract (bad = 0) or whose first or last page does not
InputFiles == {NoFile, JunkFile} \cup {f \in PdfFiles : f.bad \in {0, 1, Len(f.pages)}}

\* os.path.exists(p) with the test left out
PathExistsUnchecked(f, p) == TRUE

\* os.path.exists(p)
PathExists(f, p) == p \in DOMAIN f /\ f[p].kind # "none"

\* open(path, "w") succeeds when the parent directory exists
Writable(p) == DirName(p) \in Dirs

\* --------------------------------------------------------------- state
VARIABLES
    pc,           \* position in the script
    argv,         \* sys.argv[1:]
    fs,           \* path -> file
    libAvailable, \* whether `import fitz` succeeds
    diskFull,     \* whether f.write fails for lack of space
    pdf_path, output_path, doc, lines, i, content, result_path,
    exc,          \* the exception in flight: class and message
    stdout, stderr, exitCode,
    runs,         \* invocations started so far
    fs0,          \* the file system when the current invocation started
    finished      \* exit code and file system at the end of each earlier invocation

vars == <<pc, argv, fs, libAvailable, diskFull, pdf_path, output_path, doc, lines, i,
          content, result_path, exc, stdout, stderr, exitCode, runs, fs0, finished>>

NoDoc == [state |-> "none", pages |-> <<>>, bad |-> 0]
NoExc == [cls |-> "none", msg |-> <<>>]

locals == <<pdf_path, output_path, doc, lines, i, content, result_path, exc>>
env == <<argv, libAvailable, diskFull, runs, fs0, finished>>
io == <<stdout, stderr, exitCode>>

FreshLocals ==
    /\ pdf_path = <<>> /\ output_path = None /\ doc = NoDoc /\ lines = <<>>
    /\ i = 0 /\ content = <<>> /\ result_path = None /\ exc = NoExc

Init ==
    /\ pc = "import"
    /\ argv \in {<<>>} \cup {<<p>> : p \in PdfPaths} \cup {<<p, o>> : p \in PdfPaths, o \in OutPaths}
    /\ \E input \in InputFiles, preexisting \in BOOLEAN :
          fs = [p \in AllPaths |->
                  IF Len(argv) > 0 /\ p = argv[1] THEN input
                  ELSE IF preexisting /\ Writable(p) THEN OldFile
                  ELSE NoFile]
    /\ libAvailable \in BOOLEAN
    /\ diskFull \in BOOLEAN
    /\ FreshLocals
    /\ stdout = <<>> /\ stderr = <<>> /\ exitCode = -1
    /\ runs = 1
    /\ fs0 = fs
    /\ finished = <<>>

\* sys.exit(code)
Exit(code) == pc' = "exit" /\ exitCode' = code

\* raise cls(msg) inside extract_pdf_text: control reaches main's handler
Raise(cls, msg) == pc' = "except" /\ exc' = [cls |-> cls, msg |-> msg]

\* lines 15-19: import fitz, or report and exit
ImportFitz ==
    /\ pc = "import"
    /\ IF libAvailable
       THEN pc' = "main" /\ UNCHANGED io
       ELSE /\ stderr' = Append(stderr, ImportErrorLine)
            /\ Exit(1)
            /\ UNCHANGED stdout
    /\ UNCHANGED <<fs, locals, env>>

\* lines 60-65: argument check and unpacking
MainArgs ==
    /\ pc = "main"
    /\ IF Len(argv) + 1 < 2
       THEN /\ stderr' = Append(stderr, UsageLine)
            /\ Exit(1)
            /\ UNCHANGED <<stdout, pdf_path, output_path>>
       ELSE /\ pdf_path' = argv[1]
            /\ output_path' = IF Len(argv) + 1 > 2 THEN argv[2] ELSE None
            /\ pc' = "check"
            /\ UNCHANGED io
    /\ UNCHANGED <<fs, doc, lines, i, content, result_path, exc, env>>

\* the handler's line without its prefix
ErrorLineBare(msg) == msg

\* the line main's handler prints: f"ERROR: {e}"
ErrorLine(msg) == ErrorPrefix \o msg

\* a write that also leaves a copy at o.md
WriteFileAndCopy(f, p, c) ==
    [f EXCEPT ![p] = TextFile(c), ![<<"o", ".", "m", "d">>] = TextFile(c)]

\* the effect on the file system of writing text c to path p
WriteFile(f, p, c) == [f EXCEPT ![p] = TextFile(c)]

\* lines 25-26: the input must exist
CheckExists ==
    /\ pc = "check"
    /\ IF ~PathExists(fs, pdf_path)
       THEN Raise("FileNotFoundError", NotFoundPrefix \o pdf_path)
       ELSE pc' = "resolve" /\ UNCHANGED exc
    /\ UNCHANGED <<fs, pdf_path, output_path, doc, lines, i, content, result_path, io, env>>

\* lines 29-30: default output path
ResolveOutput ==
    /\ pc = "resolve"
    /\ output_path' = IF output_path = None THEN DefaultOutputPath(pdf_path) ELSE output_path
    /\ pc' = "open"
    /\ UNCHANGED <<fs, pdf_path, doc, lines, i, content, result_path, exc, io, env>>

\* line 32: doc = fitz.open(pdf_path)
OpenDocument ==
    /\ pc = "open"
    /\ IF fs[pdf_path].kind = "pdf"
       THEN /\ doc' = [state |-> "open", pages |-> fs[pdf_path].pages, bad |-> fs[pdf_path].bad]
            /\ pc' = "header"
            /\ UNCHANGED exc
       ELSE /\ Raise(IF fs[pdf_path].kind = "none" THEN "fitz.FileNotFoundError"
                     ELSE "fitz.FileDataError", OpenFailedMsg)
            /\ UNCHANGED doc
    /\ UNCHANGED <<fs, pdf_path, output_path, lines, i, content, result_path, io, env>>

\* lines 34-38: title and page count
AppendHeader ==
    /\ pc = "header"
    /\ lines' = HeaderLines(pdf_path, Len(doc.pages))
    /\ i' = 0
    /\ pc' = "loop"
    /\ UNCHANGED <<fs, pdf_path, output_path, doc, content, result_path, exc, io, env>>

\* lines 40-47: one iteration of the loop over enumerate(doc)
ExtractPage ==
    /\ pc = "loop"
    /\ i < Len(doc.pages)
    /\ IF doc.bad = i + 1
       THEN /\ Raise("RuntimeError", ExtractFailedMsg)
            /\ UNCHANGED <<lines, i>>
       ELSE /\ lines' = lines \o PageLines(i, doc.pages[i + 1])
            /\ i' = i + 1
            /\ UNCHANGED <<pc, exc>>
    /\ UNCHANGED <<fs, pdf_path, output_path, doc, content, result_path, io, env>>

\* line 49: doc.close(), reached when the loop is exhausted
CloseDocument ==
    /\ pc = "loop"
    /\ i = Len(doc.pages)
    /\ doc' = [doc EXCEPT !.state = "closed"]
    /\ pc' = "join"
    /\ UNCHANGED <<fs, pdf_path, output_path, lines, i, content, result_path, exc, io, env>>

\* line 51: content = "\n".join(lines)
JoinLines ==
    /\ pc = "join"
    /\ content' = Join(lines)
    /\ pc' = "openout"
    /\ UNCHANGED <<fs, pdf_path, output_path, doc, lines, i, result_path, exc, io, env>>

\* line 53: open(output_path, "w") creates or truncates the file
OpenOutput ==
    /\ pc = "openout"
    /\ IF Writable(output_path)
       THEN /\ fs' = WriteFile(fs, output_path, <<>>)
            /\ pc' = "write"
            /\ UNCHANGED exc
       ELSE /\ Raise("FileNotFoundError", NoSuchDirMsg \o output_path)
            /\ UNCHANGED fs
    /\ UNCHANGED <<pdf_path, output_path, doc, lines, i, content, result_path, io, env>>

\* line 54 and the end of the with block: f.write(content), flush, close.
\* When the device is full some proper prefix of content reaches the file.
WriteContent ==
    /\ pc = "write"
    /\ IF diskFull
       THEN /\ \E k \in {0, Len(content) - 1} :
                 fs' = WriteFile(fs, output_path, SubSeq(content, 1, k))
            /\ Raise("OSError", NoSpaceMsg)
       ELSE /\ fs' = WriteFile(fs, output_path, content)
            /\ pc' = "return"
            /\ UNCHANGED exc
    /\ UNCHANGED <<pdf_path, output_path, doc, lines, i, content, result_path, io, env>>

\* lines 56 and 68: return output_path; result_path = ...
ReturnPath ==
    /\ pc = "return"
    /\ result_path' = output_path
    /\ pc' = "print"
    /\ UNCHANGED <<fs, pdf_path, output_path, doc, lines, i, content, exc, io, env>>

\* line 69: print(result_path); main returns and the interpreter exits with 0
PrintResult ==
    /\ pc = "print"
    /\ stdout' = Append(stdout, result_path)
    /\ Exit(0)
    /\ UNCHANGED <<fs, locals, stderr, env>>

\* lines 70-72: the catch-all of main
HandleException ==
    /\ pc = "except"
    /\ stderr' = Append(stderr, ErrorLine(exc.msg))
    /\ Exit(1)
    /\ UNCHANGED <<fs, locals, stdout, env>>

\* the script is invoked again with the same arguments on the file system the
\* previous invocation left behind
Rerun ==
    /\ pc = "exit"
    /\ runs < MaxRuns
    /\ runs' = runs + 1
    /\ finished' = Append(finished, [code |-> exitCode, fs |-> fs])
    /\ fs0' = fs
    /\ pc' = "import"
    /\ pdf_path' = <<>> /\ output_path' = None /\ doc' = NoDoc /\ lines' = <<>>
    /\ i' = 0 /\ content' = <<>> /\ result_path' = None /\ exc' = NoExc
    /\ stdout' = <<>> /\ stderr' = <<>> /\ exitCode' = -1
    /\ UNCHANGED <<fs, argv, libAvailable, diskFull>>

Next ==
    \/ ImportFitz
    \/ MainArgs
    \/ CheckExists
    \/ ResolveOutput
    \/ OpenDocument
    \/ AppendHeader
    \/ ExtractPage
    \/ CloseDocument
    \/ JoinLines
    \/ OpenOutput
    \/ WriteContent
    \/ ReturnPath
    \/ PrintResult
    \/ HandleException
    \/ Rerun

Spec == Init /\ [][Next]_vars

\* ------------------------------------------------- vocabulary of the claims
HasPrefix(s, pre) == Len(s) >= Len(pre) /\ SubSeq(s, 1, Len(pre)) = pre

\* the lines of a text, cut at every newline
RECURSIVE SplitLines(_)
SplitLines(s) ==
    LET nl == {k \in 1..Len(s) : s[k] = "\n"}
    IN IF nl = {} THEN <<s>>
       ELSE LET k == CHOOSE m \in nl : \A n \in nl : m <= n
            IN <<SubSeq(s, 1, k - 1)>> \o SplitLines(SubSeq(s, k + 1, Len(s)))

RECURSIVE Ascending(_)
Ascending(S) ==
    IF S = {} THEN <<>>
    ELSE LET m == CHOOSE x \in S : \A y \in S : x <= y
         IN <<m>> \o Ascending(S \ {m})

IsPageHeading(l) == HasPrefix(l, PagePrefix)
IsRule(l) == l = RuleLine

\* 1-based indices of the pages holding a character that is not whitespace
NonBlankPages(pages) ==
    {k \in 1..Len(pages) : \E j \in 1..Len(pages[k]) : pages[k][j] \notin Whitespace}

\* where the default output of each input path of the model is expected
ExpectedDefault(p) ==
    CASE p = <<"a", ".", "p", "d", "f">> -> <<"a", ".", "m", "d">>
      [] p = <<"a">> -> <<"a", ".", "m", "d">>
      [] p = <<"a", ".", "m", "d">> -> <<"a", ".", "m", "d">>
      [] p = <<".", "p", "d", "f">> -> <<".", "p", "d", "f", ".", "m", "d">>
      [] p = <<"d", ".", "x", "/", "a">> -> <<"d", ".", "x", "/", "a", ".", "m", "d">>

\* the output path an invocation with these arguments is expected to use
ResolvedOutput == IF Len(argv) >= 2 THEN argv[2] ELSE ExpectedDefault(argv[1])

Exited == pc = "exit"
Succeeded == pc = "exit" /\ exitCode = 0
\* the invocation got as far as calling extract_pdf_text
Called == libAvailable /\ Len(argv) >= 1 /\ pc \notin {"import", "main"}
\* the file the invocation was given, as it was when the invocation started
InputFile == fs0[argv[1]]
OutputLines == SplitLines(fs[ResolvedOutput].text)

\* ------------------------------------------------------------------ claims

\* C1: once the Document has been opened it is closed on every path out of
\* extract_pdf_text: when control is back in main (handler or exit) an opened
\* document is closed.
C1_ClosedOnEveryPath ==
    (pc \in {"print", "except", "exit"} /\ doc.state # "none") => doc.state = "closed"

\* C2: all-or-nothing at the output path: when the invocation has ended,
\* either it succeeded and the complete content is in the output file, or the
\* invocation produced no output file (the file system is as it was).
C2_AllOrNothing ==
    (Exited /\ Len(argv) >= 1) =>
        \/ exitCode = 0 /\ fs[ResolvedOutput] = TextFile(content)
        \/ exitCode = 1 /\ fs[ResolvedOutput] = fs0[ResolvedOutput]

\* C3: the `## Page <i>` headings of the written file are exactly the 1-based
\* indices, ascending, of the pages with non-blank text, one rule per heading.
C3_Headings ==
    Succeeded =>
        LET asc == Ascending(NonBlankPages(InputFile.pages))
            expected == [j \in 1..Len(asc) |-> PagePrefix \o IntToStr(asc[j])]
        IN /\ SelectSeq(OutputLines, IsPageHeading) = expected
           /\ Len(SelectSeq(OutputLines, IsRule)) = Len(asc)
           /\ \A k \in 1..Len(OutputLines) :
                 IsPageHeading(OutputLines[k]) => (k > 1 /\ IsRule(OutputLines[k - 1]))

C3_Witness ==
    /\ Succeeded
    /\ Len(InputFile.pages) = 3
    /\ NonBlankPages(InputFile.pages) = {1, 3}
    /\ SelectSeq(OutputLines, IsPageHeading)
         = << PagePrefix \o <<"1">>, PagePrefix \o <<"3">> >>

\* C4 as stated: exit code 0 with the output path on stdout exactly on
\* success, and every failure, the missing argument included, ends with exit
\* code 1, an `ERROR: ` line on stderr and nothing on stdout.
C4_Original ==
    Exited =>
        \/ /\ exitCode = 0 /\ result_path # None
           /\ stdout = <<result_path>> /\ stderr = <<>>
        \/ /\ exitCode = 1 /\ result_path = None
           /\ stdout = <<>>
           /\ Len(stderr) = 1 /\ HasPrefix(stderr[1], ErrorPrefix)

\* C4 amended: as C4, except that a missing argument ends with exit code 1 and
\* the usage line on stderr, which carries no `ERROR: ` prefix.
C4_ExitCodes ==
    Exited =>
        \/ /\ exitCode = 0 /\ result_path # None
           /\ result_path = ResolvedOutput
           /\ fs[result_path] = TextFile(content)
           /\ stdout = <<result_path>> /\ stderr = <<>>
        \/ /\ exitCode = 1 /\ result_path = None
           /\ stdout = <<>>
           /\ Len(stderr) = 1
           /\ IF libAvailable /\ Len(argv) = 0
              THEN stderr[1] = UsageLine /\ ~HasPrefix(stderr[1], ErrorPrefix)
              ELSE HasPrefix(stderr[1], ErrorPrefix)

C4_Witness ==
    /\ Exited /\ exitCode = 1 /\ libAvailable /\ Len(argv) >= 1
    /\ exc.cls = "fitz.FileDataError"
    /\ stderr = <<ErrorPrefix \o OpenFailedMsg>>

\* C5: a missing input fails with FileNotFoundError before the document is
\* opened, exits with 1, and leaves every file as it was.
C5_MissingInput ==
    (Called /\ pc # "check" /\ InputFile.kind = "none") =>
        /\ pc \in {"except", "exit"}
        /\ exc = [cls |-> "FileNotFoundError", msg |-> NotFoundPrefix \o argv[1]]
        /\ doc.state = "none"
        /\ fs = fs0
        /\ stdout = <<>>
        /\ Exited => exitCode = 1

C5_Witness ==
    /\ Exited /\ libAvailable /\ Len(argv) = 2
    /\ InputFile = NoFile
    /\ fs[argv[2]] = OldFile
    /\ fs[ExpectedDefault(argv[1])] = OldFile
    /\ exitCode = 1

\* C6: a second invocation with the same arguments after a successful one
\* succeeds and leaves the same bytes in the output file.
C6_Idempotent ==
    (Exited /\ runs >= 2 /\ finished[runs - 1].code = 0) =>
        /\ exitCode = 0
        /\ fs[ResolvedOutput] = finished[runs - 1].fs[ResolvedOutput]

\* C7: the third line of the written file is `*N pages*` with N the number of
\* pages of the document, blank ones included; the line occurs once and no
\* page block precedes it.
C7_CountLine ==
    Succeeded =>
        LET countLine == <<"*">> \o IntToStr(Len(InputFile.pages)) \o CountSuffix
        IN /\ Len(OutputLines) >= 3
           /\ OutputLines[3] = countLine
           /\ Cardinality({k \in 1..Len(OutputLines) : OutputLines[k] = countLine}) = 1
           /\ \A k \in 1..Len(OutputLines) :
                 (IsRule(OutputLines[k]) \/ IsPageHeading(OutputLines[k])) => k > 3

C7_Witness ==
    /\ Succeeded
    /\ Len(InputFile.pages) = 2
    /\ NonBlankPages(InputFile.pages) = {2}
    /\ OutputLines[3] = <<"*", "2", " ", "p", "a", "g", "e", "s", "*">>

\* C8: an invocation changes no file other than the resolved output path; on
\* success that file holds the content and its path is the value returned.
C8_OneFile ==
    /\ \A p \in AllPaths :
          fs[p] # fs0[p] => (Called /\ p = ResolvedOutput)
    /\ Succeeded =>
          /\ result_path = ResolvedOutput
          /\ fs[ResolvedOutput] = TextFile(content)
          /\ content # <<>>

C8_Witness ==
    /\ Succeeded
    /\ fs[ResolvedOutput] # fs0[ResolvedOutput]
    /\ \E p \in AllPaths \ {ResolvedOutput, argv[1]} : fs[p] = OldFile

\* C9: without an output argument the file is written where the input's
\* extension is replaced by (or, lacking one, extended with) `.md`; with an
\* output argument it is written there and the default path is left alone.
C9_DefaultPath ==
    Succeeded =>
        LET default == ExpectedDefault(argv[1])
        IN /\ default \in DOMAIN fs
           /\ Len(argv) = 1 =>
                 /\ output_path = default
                 /\ fs[default] = TextFile(content)
                 /\ stdout = <<default>>
           /\ Len(argv) = 2 =>
                 /\ output_path = argv[2]
                 /\ fs[argv[2]] = TextFile(content)
                 /\ stdout = <<argv[2]>>
                 /\ default # argv[2] => fs[default] = fs0[default]

C9_Witness ==
    /\ Succeeded
    /\ Len(argv) = 1
    /\ argv[1] = <<"d", ".", "x", "/", "a">>
    /\ fs0[<<"d", ".", "x", "/", "a", ".", "m", "d">>] = NoFile
    /\ fs[<<"d", ".", "x", "/", "a", ".", "m", "d">>] = TextFile(content)

\* C10: the file at the input path holds the same bytes after the invocation
\* as before it, whatever the output path.
C10_InputUntouched ==
    (Exited /\ Len(argv) >= 1) => fs[argv[1]] = fs0[argv[1]]

====
